---- MODULE Spec2Model ----
(***************************************************************************)
(* A model of the 2bit codec of mendelics/twobit: the Writer (Add,         *)
(* WriteTo), the Reader (NewReader, parseHeader, parseIndex, parseRecord,  *)
(* ReadRange, Read, Length, LengthNoN, NBlocks) and the free functions     *)
(* Pack and Unpack.  Characters and bytes are their numeric codes;         *)
(* strings and byte slices are sequences of such codes.  The Reader's      *)
(* stream is an in-memory bytes.Reader, as the repository's service and    *)
(* test construct it.                                                      *)
(***************************************************************************)
EXTENDS Integers, Sequences, FiniteSets, TLC

\* ------------------------------------------------------------------ bounds

\* Longest sequence Add is given in the main specification.
MaxDna == 3

\* Longest sequence Add is given in the byte-order specification.
MaxOrderDna == 2

\* Longest string Pack/Unpack are applied to in the packing specification.
MaxPackLen == 5

\* Longest sequence Add is given in the truncation specification.
MaxTruncDna == 1

\* Longest sequence Add is given in the Writer specification.
MaxWriterDna == 2

\* Longest sequence Add is given in the collaborator specification.
MaxIntervalDna == 2

\* Longest sequence Add is given in the run-detection specification.
MaxBlocksDna == 4

\* Longest sequence Add is given in the concurrency specification.
MaxRaceDna == 2

\* ------------------------------------------------------- program constants

SIG == 440477507

defaultBufSize == 4096

BASE_N == 78

BASE_T == 84

BASE_C == 67

BASE_A == 65

BASE_G == 71

BYTES2NT == <<BASE_T, BASE_C, BASE_A, BASE_G>>

\* The keys twobit.go's init fills in: the five bases, in either case.
BaseChars == {BASE_N, BASE_T, BASE_C, BASE_A, BASE_G,
              BASE_N + 32, BASE_T + 32, BASE_C + 32, BASE_A + 32, BASE_G + 32}

NT2BYTES(c) ==
  CASE c \in {BASE_N, BASE_T, BASE_N + 32, BASE_T + 32} -> 0
    [] c \in {BASE_C, BASE_C + 32} -> 1
    [] c \in {BASE_A, BASE_A + 32} -> 2
    [] c \in {BASE_G, BASE_G + 32} -> 3

\* ------------------------------------------------------------ byte helpers

Min(a, b) == IF a < b THEN a ELSE b

\* s[lo:hi] of Go, on a 1-based sequence: elements lo .. hi-1 (0-based).
Slice(s, lo, hi) == SubSeq(s, lo + 1, hi)

Zeros(n) == [i \in 1..n |-> 0]

\* binary.ByteOrder.Uint32 of the four bytes b, for order bo.
Uint32(bo, b) ==
  IF bo = "BE"
    THEN b[1] * 16777216 + b[2] * 65536 + b[3] * 256 + b[4]
    ELSE b[4] * 16777216 + b[3] * 65536 + b[2] * 256 + b[1]

\* binary.ByteOrder.PutUint32: the four bytes of v in order bo.
PutUint32(bo, v) ==
  LET b0 == v % 256
      b1 == (v \div 256) % 256
      b2 == (v \div 65536) % 256
      b3 == (v \div 16777216) % 256
  IN IF bo = "BE" THEN <<b3, b2, b1, b0>> ELSE <<b0, b1, b2, b3>>

packedSize(dnaSize) == (dnaSize + 3) \div 4

\* ------------------------------------------------------------ Pack / Unpack

\* A decoding that takes the first base from bits 0-1: the variant the
\* round-trip property must tell apart.
UnpackByteLowFirst(base) ==
  [j \in 1..4 |-> BYTES2NT[((base \div (2 ^ (2 * (j - 1)))) % 4) + 1]]

\* The four characters one packed byte decodes to (the j = 3..0 loop).
UnpackByte(base) ==
  [j \in 1..4 |-> BYTES2NT[((base \div (2 ^ (2 * (4 - j)))) % 4) + 1]]

RECURSIVE UnpackAll(_)
UnpackAll(raw) ==
  IF raw = <<>> THEN <<>> ELSE UnpackByte(Head(raw)) \o UnpackAll(Tail(raw))

Unpack(raw, sz) == Slice(UnpackAll(raw), 0, sz)

\* One byte of Pack's output: the inner j loop for output byte i (0-based).
RECURSIVE PackByte(_, _, _, _)
PackByte(s, i, j, b) ==
  IF j = 4 THEN b
  ELSE LET idx == 4 * i + j
           val == IF idx < Len(s) THEN NT2BYTES(s[idx + 1]) ELSE NT2BYTES(BASE_T)
       IN PackByte(s, i, j + 1, (((b * 4) % 256) + val) % 256)

\* Pack: an error when a character has no entry in NT2BYTES.
Pack(s) ==
  IF \E k \in 1..Len(s) : s[k] \notin BaseChars
    THEN [ok |-> FALSE, bytes |-> <<>>]
    ELSE [ok |-> TRUE,
          bytes |-> [i \in 1..packedSize(Len(s)) |-> PackByte(s, i - 1, 0, 0)]]

\* ------------------------------------------------------------------ Writer

isN == {BASE_N, BASE_N + 32}

isLower == 97..122

\* The scan of mapBlocks from position i on; check is the set of matching runes.
RECURSIVE mapBlocksLoop(_, _, _, _, _, _)
mapBlocksLoop(seq, check, i, start, isLast, blocks) ==
  IF i >= Len(seq)
    THEN IF isLast
           THEN Append(blocks, [start |-> start, count |-> Len(seq) - start])
           ELSE blocks
    ELSE LET match == seq[i + 1] \in check
         IN IF match
              THEN mapBlocksLoop(seq, check, i + 1,
                                 IF isLast THEN start ELSE i, TRUE, blocks)
              ELSE mapBlocksLoop(seq, check, i + 1, start, FALSE,
                                 IF isLast
                                   THEN Append(blocks,
                                               [start |-> start, count |-> i - start])
                                   ELSE blocks)

\* A scan that stops before the last character: the variant the
\* run-detection property must tell apart.
mapBlocksShort(seq, check) ==
  mapBlocksLoop(SubSeq(seq, 1, Len(seq) - 1), check, 0, 0, FALSE, <<>>)

mapBlocks(seq, check) == mapBlocksLoop(seq, check, 0, 0, FALSE, <<>>)

\* The record Add builds once Pack has returned (pack).
Packed(seq, pack) ==
  IF ~pack.ok THEN [err |-> "UnsupportedBase", rec |-> <<>>]
  ELSE [err |-> "",
        rec |-> [dnaSize  |-> Len(seq),  \* uint32: lengths here are far below 2^32
                 nBlocks  |-> mapBlocks(seq, isN),
                 mBlocks  |-> mapBlocks(seq, isLower),
                 reserved |-> 0,
                 sequence |-> pack.bytes]]

\* An Add without the test of the name's length: the variant the Writer-state
\* property must tell apart.
AddRecordAnyName(name, seq) == Packed(seq, Pack(seq))

\* What Writer.Add returns and the record it stores when it succeeds.
AddRecord(name, seq) ==
  IF Len(name) > 255 THEN [err |-> "NameTooLong", rec |-> <<>>]
  ELSE Packed(seq, Pack(seq))

\* seqRecord.size
size(rec) == 16 + 2 * 4 * Len(rec.nBlocks) + 2 * 4 * Len(rec.mBlocks) + Len(rec.sequence)

RECURSIVE SumSizes(_, _, _)
SumSizes(recs, names, k) ==
  IF k = 0 THEN 0 ELSE size(recs[names[k]]) + SumSizes(recs, names, k - 1)

RECURSIVE IdxSize(_, _)
IdxSize(names, k) ==
  IF k = 0 THEN 0 ELSE 5 + Len(names[k]) + IdxSize(names, k - 1)

RECURSIVE PutBlockField(_, _, _, _)
PutBlockField(bo, blocks, field, k) ==
  IF k > Len(blocks) THEN <<>>
  ELSE PutUint32(bo, IF field = "start" THEN blocks[k].start ELSE blocks[k].count)
         \o PutBlockField(bo, blocks, field, k + 1)

\* The bytes of one record, as WriteTo's last loop lays them out.
PutRecord(bo, rec) ==
  PutUint32(bo, rec.dnaSize)
    \o PutUint32(bo, Len(rec.nBlocks))
    \o PutBlockField(bo, rec.nBlocks, "start", 1)
    \o PutBlockField(bo, rec.nBlocks, "count", 1)
    \o PutUint32(bo, Len(rec.mBlocks))
    \o PutBlockField(bo, rec.mBlocks, "start", 1)
    \o PutBlockField(bo, rec.mBlocks, "count", 1)
    \o PutUint32(bo, 0)
    \o rec.sequence

\* An index whose offsets leave the size of the index out: the variant the
\* layout property must tell apart.
RECURSIVE PutIndexFromHeader(_, _, _, _)
PutIndexFromHeader(bo, recs, names, k) ==
  IF k > Len(names) THEN <<>>
  ELSE <<Len(names[k]) % 256>> \o names[k]
         \o PutUint32(bo, 16 + SumSizes(recs, names, k - 1))
         \o PutIndexFromHeader(bo, recs, names, k + 1)

\* The index WriteTo writes: entry k carries the offset of record k.
RECURSIVE PutIndex(_, _, _, _)
PutIndex(bo, recs, names, k) ==
  IF k > Len(names) THEN <<>>
  ELSE <<Len(names[k]) % 256>> \o names[k]
         \o PutUint32(bo, 16 + IdxSize(names, Len(names)) + SumSizes(recs, names, k - 1))
         \o PutIndex(bo, recs, names, k + 1)

RECURSIVE PutRecords(_, _, _, _)
PutRecords(bo, recs, names, k) ==
  IF k > Len(names) THEN <<>>
  ELSE PutRecord(bo, recs[names[k]]) \o PutRecords(bo, recs, names, k + 1)

\* The stream WriteTo emits when the map iteration yields names in this
\* order, with every integer written in byte order bo.
Serialize(bo, recs, names) ==
  PutUint32(bo, SIG) \o PutUint32(bo, 0) \o PutUint32(bo, Len(names)) \o PutUint32(bo, 0)
    \o PutIndex(bo, recs, names, 1)
    \o PutRecords(bo, recs, names, 1)

\* Writer.WriteTo writes little-endian.
WriteToBytes(recs, names) == Serialize("LE", recs, names)


\* ------------------------------------------------------------------ Reader

\* bytes.Reader.Read(buf[0:n]) at cursor p of stream s: io.EOF and nothing
\* copied when the cursor is at or past the end, else as many bytes as there
\* are, up to n, with a nil error.  The rest of buf keeps what it held.
StreamRead(s, p, buf, n) ==
  IF p >= Len(s)
    THEN [n |-> 0, eof |-> TRUE, buf |-> buf, pos |-> p]
    ELSE [n   |-> Min(n, Len(s) - p),
          eof |-> FALSE,
          buf |-> [i \in 1..Len(buf) |->
                     IF i <= Min(n, Len(s) - p) THEN s[p + i] ELSE buf[i]],
          pos |-> p + Min(n, Len(s) - p)]

\* What the parsing code keeps of one r.reader.Read(b): the error, never the
\* count of bytes read.
ErrOnly(r) == [err |-> r.eof, buf |-> r.buf, pos |-> r.pos]

\* One `_, err := r.reader.Read(buf)` of the parsing code.
ReadField(s, p, buf) == ErrOnly(StreamRead(s, p, buf, Len(buf)))

NoHeader == [sig |-> 0, version |-> 0, count |-> 0, reserved |-> 0, byteOrder |-> "BE"]

HeaderError(e, r) == [err |-> e, hdr |-> NoHeader, pos |-> r.pos]

\* A parseHeader that never tries big-endian: the variant the byte-order
\* property must tell apart.
ByteOrderLittleOnly(b) == "LE"

\* The byte order parseHeader settles on for the header bytes b.
ByteOrderOf(b) == IF Uint32("BE", Slice(b, 0, 4)) = SIG THEN "BE" ELSE "LE"

\* parseHeader once the 16 bytes are read (r) and the byte order is bo.
HeaderFields(r, bo) ==
  IF Uint32(bo, Slice(r.buf, 0, 4)) # SIG THEN HeaderError("Invalid sig", r)
  ELSE IF Uint32(bo, Slice(r.buf, 4, 8)) # 0 THEN HeaderError("Unsupported version", r)
  ELSE IF Uint32(bo, Slice(r.buf, 12, 16)) # 0 THEN HeaderError("Reserved != 0", r)
  ELSE [err |-> "",
        hdr |-> [sig       |-> SIG,
                 version   |-> Uint32(bo, Slice(r.buf, 4, 8)),
                 count     |-> Uint32(bo, Slice(r.buf, 8, 12)),
                 reserved  |-> Uint32(bo, Slice(r.buf, 12, 16)),
                 byteOrder |-> bo],
        pos |-> r.pos]

HeaderRead(r) == IF r.err THEN HeaderError("EOF", r) ELSE HeaderFields(r, ByteOrderOf(r.buf))

\* Reader.parseHeader on a stream whose cursor is at 0.
parseHeader(s) == HeaderRead(ReadField(s, 0, Zeros(16)))

\* index[name] = offset, replacing an earlier entry of that name.
PutIndexEntry(index, name, offset) ==
  [n \in DOMAIN index \cup {name} |-> IF n = name THEN offset ELSE index[n]]

IndexError(index, r) == [err |-> "Failed to read file index", index |-> index, pos |-> r.pos]

RECURSIVE parseIndexLoop(_, _, _, _, _)

\* The offset of entry i is read (off): store it and go on.
IndexOffset(s, hdr, i, index, name, off) ==
  IF off.err THEN IndexError(index, off)
  ELSE parseIndexLoop(s, off.pos, hdr, i + 1,
                      PutIndexEntry(index, name, Uint32(hdr.byteOrder, off.buf)))

\* The name of entry i is read (nm): read its offset.
IndexName(s, hdr, i, index, nm) ==
  IF nm.err THEN IndexError(index, nm)
  ELSE IndexOffset(s, hdr, i, index, nm.buf, ReadField(s, nm.pos, Zeros(4)))

\* The length byte of entry i is read (sz): read the name.
IndexSize(s, hdr, i, index, sz) ==
  IF sz.err THEN IndexError(index, sz)
  ELSE IndexName(s, hdr, i, index, ReadField(s, sz.pos, Zeros(sz.buf[1])))

\* The loop of Reader.parseIndex from entry i on.
parseIndexLoop(s, p, hdr, i, index) ==
  IF i >= hdr.count THEN [err |-> "", index |-> index, pos |-> p]
  ELSE IndexSize(s, hdr, i, index, ReadField(s, p, Zeros(1)))

parseIndex(s, p, hdr) == parseIndexLoop(s, p, hdr, 0, <<>>)

ReaderError(e, r) == [err |-> e, hdr |-> NoHeader, index |-> <<>>, pos |-> r.pos]

OpenIndex(hdr, x) ==
  IF x.err # "" THEN ReaderError(x.err, x)
  ELSE [err |-> "", hdr |-> hdr, index |-> x.index, pos |-> x.pos]

OpenHeader(s, h) ==
  IF h.err # "" THEN ReaderError(h.err, h)
  ELSE OpenIndex(h.hdr, parseIndex(s, h.pos, h.hdr))

\* NewReader: parseHeader, then parseIndex.
NewReaderOn(s) == OpenHeader(s, parseHeader(s))

RECURSIVE ReadWords(_, _, _, _, _, _)

ReadWord(s, bo, n, vals, r) ==
  IF r.err THEN [err |-> TRUE, vals |-> vals, buf |-> r.buf, pos |-> r.pos]
  ELSE ReadWords(s, r.pos, bo, r.buf, n - 1, Append(vals, Uint32(bo, r.buf)))

\* One loop of parseBlockCoords: n words read through the shared buffer buf.
ReadWords(s, p, bo, buf, n, vals) ==
  IF n = 0 THEN [err |-> FALSE, vals |-> vals, buf |-> buf, pos |-> p]
  ELSE ReadWord(s, bo, n, vals, ReadField(s, p, buf))

BlocksError(e, r) == [err |-> e, blocks |-> <<>>, pos |-> r.pos]

\* The sizes are read: zip starts and sizes into Blocks.
BlockSizes(count, startVals, sizes) ==
  IF sizes.err THEN BlocksError("Failed to block size", sizes)
  ELSE [err    |-> "",
        blocks |-> [i \in 1..count |-> [start |-> startVals[i], count |-> sizes.vals[i]]],
        pos    |-> sizes.pos]

\* The starts are read: read the sizes through the same buffer.
BlockStarts(s, bo, count, starts) ==
  IF starts.err THEN BlocksError("Failed to block start", starts)
  ELSE BlockSizes(count, starts.vals,
                  ReadWords(s, starts.pos, bo, starts.buf, count, <<>>))

\* The block count is read (c): read that many starts.
BlockCount(s, bo, c) ==
  IF c.err THEN BlocksError("Failed to read blockCount", c)
  ELSE BlockStarts(s, bo, Uint32(bo, c.buf),
                   ReadWords(s, c.pos, bo, c.buf, Uint32(bo, c.buf), <<>>))

\* Reader.parseBlockCoords at cursor p.
parseBlockCoords(s, p, bo) == BlockCount(s, bo, ReadField(s, p, Zeros(4)))

NoRecord == [dnaSize |-> 0, nBlocks |-> <<>>, mBlocks |-> <<>>, reserved |-> 0]

RecordError(e, r) == [err |-> e, rec |-> NoRecord, pos |-> r.pos]

\* A seek that never moves the cursor back: the variant the
\* history-independence property must tell apart.
SeekForward(p, offset) == IF p > offset THEN p ELSE offset

\* A parseRecord that reads on from the cursor it finds: the variant the
\* serialized-calls property must tell apart.
SeekNowhere(p, offset) == p

\* The absolute seek that opens parseRecord: the cursor after Seek(offset, 0)
\* from cursor p.
SeekStart(p, offset) == offset

\* The reserved field is read, through the buffer that held dnaSize.
RecordReserved(bo, dnaSize, nBlocks, mBlocks, rs) ==
  IF rs.err THEN RecordError("Failed to read reserved", rs)
  ELSE IF Uint32(bo, rs.buf) # 0 THEN RecordError("Invalid reserved", rs)
  ELSE [err |-> "",
        rec |-> [dnaSize |-> dnaSize, nBlocks |-> nBlocks, mBlocks |-> mBlocks,
                 reserved |-> 0],
        pos |-> rs.pos]

RecordMBlocks(s, bo, d, nBlocks, mb) ==
  IF mb.err # "" THEN RecordError("Failed to read mBlocks", mb)
  ELSE RecordReserved(bo, Uint32(bo, d.buf), nBlocks, mb.blocks,
                      ReadField(s, mb.pos, d.buf))

RecordNBlocks(s, bo, d, nb) ==
  IF nb.err # "" THEN RecordError("Failed to read nBlocks", nb)
  ELSE RecordMBlocks(s, bo, d, nb.blocks, parseBlockCoords(s, nb.pos, bo))

\* dnaSize is read (d): with coords, the block tables and reserved follow.
RecordSize(s, bo, coords, d) ==
  IF d.err THEN RecordError("Failed to read dnaSize", d)
  ELSE IF ~coords
    THEN [err |-> "", rec |-> [NoRecord EXCEPT !.dnaSize = Uint32(bo, d.buf)], pos |-> d.pos]
    ELSE RecordNBlocks(s, bo, d, parseBlockCoords(s, d.pos, bo))

\* Reader.parseRecord: the record of name, or an error; pos is the cursor it
\* leaves.  rd is the Reader: its stream, cursor, header and index.
parseRecord(rd, name, coords) ==
  IF name \notin DOMAIN rd.index
    THEN [err |-> "Invalid sequence name", rec |-> NoRecord, pos |-> rd.pos]
    ELSE RecordSize(rd.stream, rd.hdr.byteOrder, coords,
                    ReadField(rd.stream, SeekStart(rd.pos, rd.index[name]), Zeros(4)))

\* Block.Length
Length(b) == b.start + b.count

RECURSIVE ReadChunks(_, _, _, _, _, _, _)

ChunkRead(s, sz, chunks, c, i, dna, want, r) ==
  IF r.n # want THEN [ok |-> FALSE, dna |-> <<>>, pos |-> r.pos, want |-> want]
  ELSE ReadChunks(s, r.pos, sz, chunks, c + 1, i + r.n,
                  dna \o UnpackAll(Slice(r.buf, 0, r.n)))

\* The bytes one chunk asks for, i packed bytes being read already.
ChunkSize(sz, i) ==
  IF i + defaultBufSize > sz THEN sz % defaultBufSize ELSE defaultBufSize

\* The chunked read-and-unpack loop of ReadRange, from chunk c on; i is the
\* number of packed bytes unpacked so far, dna what they unpacked to.
ReadChunks(s, p, sz, chunks, c, i, dna) ==
  IF c >= chunks THEN [ok |-> TRUE, dna |-> dna, pos |-> p, want |-> 0]
  ELSE ChunkRead(s, sz, chunks, c, i, dna, ChunkSize(sz, i),
                 StreamRead(s, p, Zeros(ChunkSize(sz, i)), ChunkSize(sz, i)))

\* The inner loop of the nBlocks overlay.
RECURSIVE FillN(_, _, _, _)
FillN(seq, idx, cnt, i) ==
  IF i >= cnt \/ idx >= Len(seq) THEN seq
  ELSE FillN([seq EXCEPT ![idx + 1] = BASE_N], idx + 1, cnt, i + 1)

\* Whether an overlay loop passes block b over for the window [start, end).
Skips(b, start, end) == Length(b) < start \/ b.start > end

\* An overlay that clips idx to 0 without shortening cnt: the variant the
\* unknown-base overlay property must tell apart.
OverlayNBlockUnclipped(seq, b, start) ==
  IF b.start - start < 0
    THEN FillN(seq, 0, b.count, 0)
    ELSE FillN(seq, b.start - start, b.count, 0)

\* One block of the nBlocks overlay.
OverlayNBlock(seq, b, start) ==
  IF b.start - start < 0
    THEN FillN(seq, 0, b.count + (b.start - start), 0)
    ELSE FillN(seq, b.start - start, b.count, 0)

\* The nBlocks overlay of ReadRange, from block k on.
RECURSIVE OverlayN(_, _, _, _, _)
OverlayN(seq, blocks, start, end, k) ==
  IF k > Len(blocks) THEN seq
  ELSE IF Skips(blocks[k], start, end) THEN OverlayN(seq, blocks, start, end, k + 1)
  ELSE OverlayN(OverlayNBlock(seq, blocks[k], start), blocks, start, end, k + 1)

\* The inner loop of the mBlocks overlay: seq[idx] is written before idx is
\* compared with len(seq), so an index at or past len(seq) panics.
RECURSIVE LowerRun(_, _, _, _)
LowerRun(seq, idx, cnt, i) ==
  IF i >= cnt THEN [panic |-> FALSE, seq |-> seq]
  ELSE IF idx >= Len(seq) THEN [panic |-> TRUE, seq |-> seq]
  ELSE IF idx + 1 >= Len(seq)
    THEN [panic |-> FALSE, seq |-> [seq EXCEPT ![idx + 1] = (seq[idx + 1] + 32) % 256]]
    ELSE LowerRun([seq EXCEPT ![idx + 1] = (seq[idx + 1] + 32) % 256], idx + 1, cnt, i + 1)

\* One block of the mBlocks overlay.
OverlayMBlock(seq, b, start) ==
  IF b.start - start < 0
    THEN LowerRun(seq, 0, b.count + (b.start - start), 0)
    ELSE LowerRun(seq, b.start - start, b.count, 0)

RECURSIVE OverlayM(_, _, _, _, _)

OverlayMNext(r, blocks, start, end, k) ==
  IF r.panic THEN r ELSE OverlayM(r.seq, blocks, start, end, k + 1)

\* The mBlocks overlay of ReadRange, from block k on.
OverlayM(seq, blocks, start, end, k) ==
  IF k > Len(blocks) THEN [panic |-> FALSE, seq |-> seq]
  ELSE IF Skips(blocks[k], start, end) THEN OverlayM(seq, blocks, start, end, k + 1)
  ELSE OverlayMNext(OverlayMBlock(seq, blocks[k], start), blocks, start, end, k)

\* The range ReadRange works on once start and end are clamped to the record.
ClampStart(start) == IF start < 0 THEN 0 ELSE start

ClampHigh(end, bases) == IF end > bases THEN bases ELSE end

\* A clamp that lets end = 0 through: the variant the range-clamping property
\* must tell apart.
ClampLowBelowZero(end, bases) == IF end < 0 THEN bases ELSE end

ClampLow(end, bases) == IF end = 0 \/ end < 0 THEN bases ELSE end

ClampEnd(end, bases) == ClampLow(ClampHigh(end, bases), bases)

\* How far ReadRange seeks past the reserved field before it reads.
Shift(start) ==
  IF start > 0
    THEN IF start % 4 # 0 THEN packedSize(start) - 1 ELSE packedSize(start)
    ELSE 0

\* How many packed bytes ReadRange then asks the stream for.
Size(start, end) ==
  IF start > 0 /\ start % 4 # 0
    THEN packedSize(end - start) + 1
    ELSE packedSize(end - start)

Chunks(sz) == (sz \div defaultBufSize) + (IF sz % defaultBufSize > 0 THEN 1 ELSE 0)

\* A call's outcome.  status is "ok", "error" or "panic"; val the bytes
\* returned; num the integer returned; blocks the blocks returned; err the
\* error with its arguments; pos the cursor the call leaves; payload the
\* payload read (the stream position it starts at, the bytes asked for);
\* rec the record parsed; plain the window before the overlays, unknown the
\* window after the nBlocks overlay; start, end the clamped range.
Outcome(status, val, num, blocks, err, pos) ==
  [status |-> status, val |-> val, num |-> num, blocks |-> blocks, err |-> err,
   pos |-> pos, payload |-> <<0, 0>>, rec |-> NoRecord, plain |-> <<>>,
   unknown |-> <<>>, start |-> 0, end |-> 0]

Failure(kind, a, b, pos) == Outcome("error", <<>>, -1, <<>>, <<kind, a, b>>, pos)

\* The window is masked (m): the bytes ReadRange returns, or its panic.
RangeMasked(m, pos) ==
  IF m.panic THEN Outcome("panic", <<>>, -1, <<>>, <<"index out of range", 0, 0>>, pos)
  ELSE Outcome("ok", m.seq, -1, <<>>, <<"", 0, 0>>, pos)

\* The window carries its unknown bases: lower-case the masked runs.
RangeUnknown(rec, start, end, from, pos, plain, unknown) ==
  [RangeMasked(OverlayM(unknown, rec.mBlocks, start, end, 1), pos)
     EXCEPT !.rec = rec, !.payload = <<from, Size(start, end)>>,
            !.plain = plain, !.unknown = unknown, !.start = start, !.end = end]

\* The window is cut out of the unpacked bytes: overlay the unknown runs.
RangePlain(rec, start, end, from, pos, plain) ==
  RangeUnknown(rec, start, end, from, pos, plain,
               OverlayN(plain, rec.nBlocks, start, end, 1))

\* The payload is read (rdna): cut dna[start%4 : start%4 + bases].
RangeRead(rec, start, end, from, rdna) ==
  IF ~rdna.ok
    THEN [Failure("Failed to read dna bytes", rdna.want, 0, rdna.pos)
            EXCEPT !.rec = rec, !.payload = <<from, Size(start, end)>>,
                   !.start = start, !.end = end]
    ELSE RangePlain(rec, start, end, from, rdna.pos,
                    Slice(rdna.dna, start % 4, (start % 4) + (end - start)))

\* A test that lets the empty range start = end through: the variant the
\* degenerate-range property must tell apart.
DegenerateStrict(start, end) == end < start

\* ReadRange's test of the clamped range.
Degenerate(start, end) == end <= start

\* The range is clamped: seek into the payload and read it.
RangeClamped(s, pr, start, end) ==
  IF Degenerate(start, end)
    THEN [Failure("Invalid range", start, end, pr.pos)
            EXCEPT !.rec = pr.rec, !.start = start, !.end = end]
    ELSE RangeRead(pr.rec, start, end, pr.pos + Shift(start),
                   ReadChunks(s, pr.pos + Shift(start), Size(start, end),
                              Chunks(Size(start, end)), 0, 0, <<>>))

\* The record is parsed (pr): clamp start and end to it.
RangeOf(s, pr, start, end) ==
  IF pr.err # "" THEN Failure(pr.err, 0, 0, pr.pos)
  ELSE RangeClamped(s, pr, ClampStart(start), ClampEnd(end, pr.rec.dnaSize))

\* Reader.ReadRange
ReadRange(rd, name, start, end) ==
  RangeOf(rd.stream, parseRecord(rd, name, TRUE), start, end)

\* Reader.Read
Read(rd, name) == ReadRange(rd, name, 0, 0)

LengthFrom(pr) ==
  IF pr.err # "" THEN Failure(pr.err, 0, 0, pr.pos)
  ELSE [Outcome("ok", <<>>, pr.rec.dnaSize, <<>>, <<"", 0, 0>>, pr.pos) EXCEPT !.rec = pr.rec]

\* Reader.Length
LengthOf(rd, name) == LengthFrom(parseRecord(rd, name, FALSE))

RECURSIVE SumCounts(_, _)
SumCounts(blocks, k) == IF k = 0 THEN 0 ELSE blocks[k].count + SumCounts(blocks, k - 1)

LengthNoNFrom(pr) ==
  IF pr.err # "" THEN Failure(pr.err, 0, 0, pr.pos)
  ELSE [Outcome("ok", <<>>, pr.rec.dnaSize - SumCounts(pr.rec.nBlocks, Len(pr.rec.nBlocks)),
                <<>>, <<"", 0, 0>>, pr.pos)
          EXCEPT !.rec = pr.rec]

\* Reader.LengthNoN
LengthNoN(rd, name) == LengthNoNFrom(parseRecord(rd, name, TRUE))

NBlocksFrom(pr) ==
  IF pr.err # "" THEN Failure(pr.err, 0, 0, pr.pos)
  ELSE [Outcome("ok", <<>>, -1, pr.rec.nBlocks, <<"", 0, 0>>, pr.pos) EXCEPT !.rec = pr.rec]

\* Reader.NBlocks
NBlocks(rd, name) == NBlocksFrom(parseRecord(rd, name, TRUE))

\* ----------------------------------------------------------- state machine

VARIABLES
  records,  \* Writer.records: name -> seqRecord
  added,    \* name -> the sequence text of the last successful Add of that name
  wret,     \* what the last Add returned ("" for nil)
  names,    \* the order in which WriteTo's map iteration yielded the names
  out,      \* the bytes WriteTo wrote
  wstate,   \* "adding" until WriteTo has run, then "written"
  rd,       \* the Reader: stream, cursor (pos), hdr, index
  rstate,   \* "none" before NewReader, then "open" or "failed"
  src,      \* how the Reader's stream was made (byte order, bytes kept) and
            \* the cursor NewReader left (home)
  call,     \* the call that returned last: op, name, start, end, moved
  ret,      \* its Outcome
  thr,      \* per goroutine calling the Reader without a lock: the call it is
            \* in, how far the call has got (pc), the record parsed (pr), its
            \* Outcome, and whether another call moved the cursor under it
  pin,      \* the string handed to Pack
  pout,     \* what Pack returned for it
  punp,     \* what Unpack returned for Pack's bytes
  pstate    \* "in", "packed", "unpacked"

vars == <<records, added, wret, names, out, wstate, rd, rstate, src, call, ret, thr,
          pin, pout, punp, pstate>>

writerVars == <<records, added, wret, names, out, wstate>>

readerVars == <<rd, rstate, src, call, ret, thr>>

packVars == <<pin, pout, punp, pstate>>

\* The names sequences are stored under: "a" and "bb".
Names == {<<97>>, <<98, 98>>}

\* All strings of length at most n over the characters A.
SeqsOver(A, n) == UNION {[1..k -> A] : k \in 0..n}

\* The characters of the sequences Add is given in the main specification:
\* a plain base, a masked base, an unknown base and a masked unknown base.
MainChars == {BASE_A, BASE_C + 32, BASE_N, BASE_N + 32}

\* The orders a map iteration over the keys S can take.
Orders(S) ==
  {o \in [1..Cardinality(S) -> S] : \A i, j \in 1..Cardinality(S) : i # j => o[i] # o[j]}

NoCall == [op |-> "none", name |-> <<>>, start |-> 0, end |-> 0, moved |-> FALSE]

NoReader == [stream |-> <<>>, pos |-> 0, hdr |-> NoHeader, index |-> <<>>]

NoOutcome == Outcome("none", <<>>, -1, <<>>, <<"", 0, 0>>, 0)

\* The goroutines that share the Reader in the concurrency specification.
Threads == {1, 2}

NoParse == [err |-> "", rec |-> NoRecord, pos |-> 0]

\* A goroutine that is in no call.
Idle == [pc |-> "idle", op |-> "none", name |-> <<>>, start |-> 0, end |-> 0,
         pr |-> NoParse, ret |-> NoOutcome, mixed |-> FALSE]

InitWriter ==
  /\ records = <<>>
  /\ added = <<>>
  /\ wret = ""
  /\ names = <<>>
  /\ out = <<>>
  /\ wstate = "adding"

InitReader ==
  /\ rd = NoReader
  /\ rstate = "none"
  /\ src = [bo |-> "LE", kept |-> 0, home |-> 0]
  /\ call = NoCall
  /\ ret = NoOutcome
  /\ thr = [t \in Threads |-> Idle]

InitPack ==
  /\ pin = <<>>
  /\ pout = [ok |-> TRUE, bytes |-> <<>>]
  /\ punp = <<>>
  /\ pstate = "in"

Init == InitWriter /\ InitReader /\ InitPack

Added(name, seq, r) ==
  /\ wret' = r.err
  /\ IF r.err = ""
       THEN /\ records' = PutIndexEntry(records, name, r.rec)
            /\ added' = PutIndexEntry(added, name, seq)
       ELSE UNCHANGED <<records, added>>

\* Writer.Add(name, seq)
Add(name, seq) ==
  /\ wstate = "adding"
  /\ Added(name, seq, AddRecord(name, seq))
  /\ UNCHANGED <<names, out, wstate>>
  /\ UNCHANGED readerVars
  /\ UNCHANGED packVars

\* Writer.WriteTo(out), its map iteration yielding the names in order o.
WriteTo(o) ==
  /\ wstate = "adding"
  /\ o \in Orders(DOMAIN records)
  /\ names' = o
  /\ out' = WriteToBytes(records, o)
  /\ wstate' = "written"
  /\ UNCHANGED <<records, added, wret>>
  /\ UNCHANGED readerVars
  /\ UNCHANGED packVars

\* The bytes NewReader is given: the first kept bytes of the written file,
\* its integers in byte order bo.
Input(bo, kept) ==
  Slice(IF bo = "LE" THEN out ELSE Serialize(bo, records, names), 0, kept)

Opened(bo, kept, s, r) ==
  /\ rd' = [stream |-> s, pos |-> r.pos, hdr |-> r.hdr, index |-> r.index]
  /\ rstate' = IF r.err = "" THEN "open" ELSE "failed"
  /\ src' = [bo |-> bo, kept |-> kept, home |-> r.pos]

\* NewReader over Input(bo, kept).
NewReader(bo, kept) ==
  /\ wstate = "written"
  /\ rstate = "none"
  /\ kept \in 0..Len(out)
  /\ Opened(bo, kept, Input(bo, kept), NewReaderOn(Input(bo, kept)))
  /\ UNCHANGED <<call, ret, thr>>
  /\ UNCHANGED writerVars
  /\ UNCHANGED packVars

\* A Reader call returning outcome r; call.moved tells whether earlier calls
\* had left the cursor elsewhere than NewReader did.
Returns(op, name, start, end, r) ==
  /\ rstate = "open"
  /\ call.op = "none"
  /\ call' = [op |-> op, name |-> name, start |-> start, end |-> end,
              moved |-> rd.pos # src.home]
  /\ ret' = r
  /\ rd' = [rd EXCEPT !.pos = r.pos]
  /\ UNCHANGED <<rstate, src, thr>>
  /\ UNCHANGED writerVars
  /\ UNCHANGED packVars

CallReadRange(name, start, end) ==
  Returns("ReadRange", name, start, end, ReadRange(rd, name, start, end))

CallRead(name) == Returns("Read", name, 0, 0, Read(rd, name))

CallLength(name) == Returns("Length", name, 0, 0, LengthOf(rd, name))

CallLengthNoN(name) == Returns("LengthNoN", name, 0, 0, LengthNoN(rd, name))

CallNBlocks(name) == Returns("NBlocks", name, 0, 0, NBlocks(rd, name))

\* Pack(pin)
DoPack ==
  /\ pstate = "in"
  /\ pout' = Pack(pin)
  /\ pstate' = "packed"
  /\ UNCHANGED <<pin, punp>>
  /\ UNCHANGED writerVars
  /\ UNCHANGED readerVars

\* Unpack(Pack(pin), len(pin))
DoUnpack ==
  /\ pstate = "packed"
  /\ pout.ok
  /\ punp' = Unpack(pout.bytes, Len(pin))
  /\ pstate' = "unpacked"
  /\ UNCHANGED <<pin, pout>>
  /\ UNCHANGED writerVars
  /\ UNCHANGED readerVars

\* The caller takes the result of the call that returned; the next call is
\* made after that (one caller, one call at a time).
Done ==
  /\ rstate = "open"
  /\ call.op # "none"
  /\ call' = NoCall
  /\ ret' = NoOutcome
  /\ UNCHANGED <<rd, rstate, src, thr>>
  /\ UNCHANGED writerVars
  /\ UNCHANGED packVars

\* The sequences stored under the second name: the empty one and a single
\* masked unknown base.
OtherSeqs == {<<>>, <<BASE_N + 32>>}

\* What Add is given for name when the first name takes sequences up to n.
SeqsFor(name, n) == IF name = <<97>> THEN SeqsOver(MainChars, n) ELSE OtherSeqs

\* The main specification: a Writer is filled and written, a Reader is
\* opened on the file it wrote, and queried by one caller.
Next ==
  \/ \E name \in Names : \E seq \in SeqsFor(name, MaxDna) : Add(name, seq)
  \/ \E o \in Orders(DOMAIN records) : WriteTo(o)
  \/ NewReader("LE", Len(out))
  \/ \E name \in Names, start \in -1..MaxDna, end \in -1..(MaxDna + 1) :
       CallReadRange(name, start, end)
  \/ \E name \in Names : CallRead(name)
  \/ \E name \in Names : CallLength(name)
  \/ \E name \in Names : CallLengthNoN(name)
  \/ \E name \in Names : CallNBlocks(name)
  \/ Done

Spec == Init /\ [][Next]_vars


\* The packing specification: Pack and Unpack applied to every string of
\* bases up to MaxPackLen.
InitPacking ==
  /\ InitWriter
  /\ InitReader
  /\ pin \in SeqsOver(BaseChars, MaxPackLen)
  /\ pout = [ok |-> TRUE, bytes |-> <<>>]
  /\ punp = <<>>
  /\ pstate = "in"

NextPacking == DoPack \/ DoUnpack

SpecPack == InitPacking /\ [][NextPacking]_vars

\* The truncation specification: the Reader is opened on every prefix of a
\* written file and queried.
NextTrunc ==
  \/ \E name \in Names : \E seq \in SeqsOver(MainChars, MaxTruncDna) : Add(name, seq)
  \/ \E o \in Orders(DOMAIN records) : WriteTo(o)
  \/ \E kept \in 0..Len(out) : NewReader("LE", kept)
  \/ \E name \in Names : CallRead(name)
  \/ \E name \in Names : CallLength(name)
  \/ \E name \in Names : CallLengthNoN(name)
  \/ \E name \in Names : CallNBlocks(name)
  \/ Done

SpecTrunc == Init /\ [][NextTrunc]_vars


\* The byte-order specification: the Reader is opened on the written file or
\* on the same file with every integer big-endian, and queried.
NextOrder ==
  \/ \E name \in Names : \E seq \in SeqsFor(name, MaxOrderDna) : Add(name, seq)
  \/ \E o \in Orders(DOMAIN records) : WriteTo(o)
  \/ \E bo \in {"LE", "BE"} : NewReader(bo, Len(out))
  \/ \E name \in Names, start \in -1..MaxOrderDna, end \in -1..(MaxOrderDna + 1) :
       CallReadRange(name, start, end)
  \/ \E name \in Names : CallRead(name)
  \/ \E name \in Names : CallLength(name)
  \/ \E name \in Names : CallLengthNoN(name)
  \/ \E name \in Names : CallNBlocks(name)
  \/ Done

SpecOrder == Init /\ [][NextOrder]_vars

\* The call c made on Reader r.
Apply(c, r) ==
  CASE c.op = "ReadRange" -> ReadRange(r, c.name, c.start, c.end)
    [] c.op = "Read"      -> Read(r, c.name)
    [] c.op = "Length"    -> LengthOf(r, c.name)
    [] c.op = "LengthNoN" -> LengthNoN(r, c.name)
    [] c.op = "NBlocks"   -> NBlocks(r, c.name)


\* Two outcomes a caller cannot tell apart: the same bytes, integer and
\* blocks, or the same error (or the same panic).
Same(x, y) ==
  /\ x.status = y.status
  /\ x.val = y.val
  /\ x.num = y.num
  /\ x.blocks = y.blocks
  /\ x.err = y.err

\* The length of the sequence added under the name of the last call, 0 when
\* nothing was added under it.
Dna == IF call.name \in DOMAIN added THEN Len(added[call.name]) ELSE 0

\* The last call is a ReadRange on a stored name with 0 <= start < end <= dnaSize.
ValidWindow ==
  /\ call.op = "ReadRange"
  /\ call.name \in DOMAIN added
  /\ 0 <= call.start
  /\ call.start < call.end
  /\ call.end <= Dna

\* ------------------------------------------------------------------- C1

\* C1: Add(name, s), WriteTo, NewReader over the written bytes, then
\* Read(name) succeeds and returns exactly s.  The code does not satisfy it:
\* for the empty s, Read is ReadRange(name, 0, 0), end becomes dnaSize = 0,
\* and `end <= start` returns "Invalid range: 0-0".
FullCycleFidelity ==
  (call.op = "Read" /\ call.name \in DOMAIN added)
    => (ret.status = "ok" /\ ret.val = added[call.name])

\* ------------------------------------------------------------------- C2

\* C2: for 0 <= start < end <= dnaSize, ReadRange(name, start, end) succeeds
\* and returns s[start:end].  Stated here for records without a masked run,
\* where the mBlocks overlay does nothing.  The code does not satisfy it:
\* with start not a multiple of 4 it asks for one byte more than
\* packedSize(end-start), and when the window does not reach into that byte
\* and the payload is the end of the stream the read comes back short.
ExactSubRange ==
  (ValidWindow /\ records[call.name].mBlocks = <<>>)
    => (ret.status = "ok" /\ ret.val = Slice(added[call.name], call.start, call.end))

\* ------------------------------------------------------------------- C3

\* C3: ReadRange with start < 0 gives the outcome of start = 0; with
\* end > dnaSize the outcome of end = dnaSize; with end <= 0 the outcome of
\* end = dnaSize.
RangeClamping ==
  call.op = "ReadRange" =>
    /\ call.start < 0 => Same(ret, ReadRange(rd, call.name, 0, call.end))
    /\ call.end > Dna => Same(ret, ReadRange(rd, call.name, call.start, Dna))
    /\ call.end <= 0 => Same(ret, ReadRange(rd, call.name, call.start, Dna))

\* A ReadRange with start < 0 and end > dnaSize that returned the whole
\* sequence of two or more bases.
RangeClampingSeen ==
  /\ call.op = "ReadRange"
  /\ call.name \in DOMAIN added
  /\ call.start < 0
  /\ call.end > Dna
  /\ ret.status = "ok"
  /\ Len(ret.val) >= 2
  /\ ret.val = added[call.name]

\* ------------------------------------------------------------------- C4

\* The range the call's start and end stand for on a record of Dna bases.
WindowStart == IF call.start < 0 THEN 0 ELSE call.start

WindowEnd == IF call.end <= 0 \/ call.end > Dna THEN Dna ELSE call.end

\* Where the payload of the last call's record begins in the stream.
PayloadStart ==
  rd.index[call.name] + size(records[call.name]) - Len(records[call.name].sequence)

\* C4: when end <= start after clamping, ReadRange returns an error and no
\* bytes, and reads no payload byte: it asks the stream for nothing and
\* leaves the cursor where the payload begins.
DegenerateRange ==
  (call.op = "ReadRange" /\ call.name \in DOMAIN added /\ WindowEnd <= WindowStart)
    => /\ ret.status = "error"
       /\ ret.err[1] = "Invalid range"
       /\ ret.val = <<>>
       /\ ret.payload = <<0, 0>>
       /\ ret.pos = PayloadStart

\* ReadRange(name, 2, 2) on a record of at least two bases returned an error.
DegenerateRangeSeen ==
  /\ call.op = "ReadRange"
  /\ call.name \in DOMAIN added
  /\ Dna >= 2
  /\ call.start = 2
  /\ call.end = 2
  /\ ret.status = "error"

\* ------------------------------------------------------------------- C5

\* C5: the outcome of a call (its bytes, integer, blocks or error) does not
\* depend on the calls made before it: it is the outcome the same call has
\* on the Reader as NewReader left it.
HistoryIndependence ==
  call.op # "none" => Same(ret, Apply(call, [rd EXCEPT !.pos = src.home]))

\* A ReadRange that succeeded with the cursor left elsewhere by earlier calls.
HistoryIndependenceSeen ==
  /\ call.op = "ReadRange"
  /\ call.moved
  /\ ret.status = "ok"
  /\ Len(ret.val) >= 2

\* ------------------------------------------------------------------- C6

\* Whether absolute position p lies in one of the blocks.
InBlock(blocks, p) ==
  \E k \in 1..Len(blocks) : blocks[k].start <= p /\ p < blocks[k].start + blocks[k].count

Upper(c) == IF c \in 97..122 THEN c - 32 ELSE c

\* C6: in the window ReadRange has cut and overlaid with the unknown runs
\* (before masking), position i is 'N' exactly when start+i lies in an
\* nBlock of the record, and every other position keeps the decoded base;
\* so the window is the upper-cased s[start:end].
UnknownOverlay ==
  (call.op \in {"ReadRange", "Read"} /\ ret.status \in {"ok", "panic"})
    => /\ Len(ret.unknown) = ret.end - ret.start
       /\ Len(ret.plain) = ret.end - ret.start
       /\ \A i \in 1..Len(ret.unknown) :
            ret.unknown[i] = IF InBlock(ret.rec.nBlocks, ret.start + i - 1)
                               THEN BASE_N
                               ELSE ret.plain[i]
       /\ \A i \in 1..Len(ret.unknown) :
            ret.unknown[i] = Upper(added[call.name][ret.start + i])

\* A ReadRange that succeeded on a window with an nBlock ending exactly at
\* start, an nBlock beginning exactly at end, and a known base in between.
UnknownOverlaySeen ==
  /\ call.op = "ReadRange"
  /\ ret.status = "ok"
  /\ \E k \in 1..Len(ret.rec.nBlocks) : Length(ret.rec.nBlocks[k]) = ret.start
  /\ \E k \in 1..Len(ret.rec.nBlocks) : ret.rec.nBlocks[k].start = ret.end
  /\ ret.val = <<BASE_A>>

\* ------------------------------------------------------------------- C7

\* C7: on a valid window ReadRange does not panic, and it adds 32 to exactly
\* the positions lying in an mBlock.  The code does not satisfy it: an
\* mBlock beginning exactly at end is not passed over (the test is
\* b.start > end) and the loop writes seq[idx] with idx = len(seq) before it
\* compares idx with len(seq).
MaskOverlayInsideWindow ==
  ValidWindow
    => /\ ret.status # "panic"
       /\ ret.status = "ok" =>
            \A i \in 1..Len(ret.val) :
              ret.val[i] = IF InBlock(ret.rec.mBlocks, ret.start + i - 1)
                             THEN ret.unknown[i] + 32
                             ELSE ret.unknown[i]

\* ------------------------------------------------------------------- C8

\* The 2-bit code of a base: T (and N) 0, C 1, A 2, G 3; 0 past the end of s.
CodeAt(s, k) ==
  IF k > Len(s) THEN 0
  ELSE CASE Upper(s[k]) = BASE_C -> 1
         [] Upper(s[k]) = BASE_A -> 2
         [] Upper(s[k]) = BASE_G -> 3
         [] OTHER -> 0

\* C8: Pack(s) succeeds with ceil(len(s)/4) bytes, byte i holding bases
\* 4i..4i+3 from bits 6-7 down to bits 0-1 and T for the missing ones, and
\* Unpack(Pack(s), len(s)) is s upper-cased with N replaced by T.
PackUnpackRoundTrip ==
  /\ pstate # "in" =>
       /\ pout.ok
       /\ Len(pout.bytes) = (Len(pin) \div 4) + (IF Len(pin) % 4 = 0 THEN 0 ELSE 1)
       /\ \A i \in 1..Len(pout.bytes) :
            pout.bytes[i] = 64 * CodeAt(pin, 4 * i - 3) + 16 * CodeAt(pin, 4 * i - 2)
                              + 4 * CodeAt(pin, 4 * i - 1) + CodeAt(pin, 4 * i)
  /\ pstate = "unpacked" =>
       punp = [k \in 1..Len(pin) |->
                 IF Upper(pin[k]) = BASE_N THEN BASE_T ELSE Upper(pin[k])]

\* "GnaCt" was packed into two bytes and unpacked into "GTACT".
PackUnpackRoundTripSeen ==
  /\ pstate = "unpacked"
  /\ pin = <<BASE_G, BASE_N + 32, BASE_A + 32, BASE_C, BASE_T + 32>>
  /\ pout.bytes = <<201, 0>>
  /\ punp = <<BASE_G, BASE_T, BASE_A, BASE_C, BASE_T>>

\* ------------------------------------------------------------------- C9

\* Where the header and the index of the written file end.
IndexEnd == 16 + IdxSize(names, Len(names))

\* Where the fixed-size fields the last call parses end: dnaSize for Length,
\* the reserved field for the others.
FieldsEnd ==
  IF call.op = "Length"
    THEN 16 + IdxSize(names, Len(names)) + 4
    ELSE 16 + IdxSize(names, Len(names)) + 16
           + 8 * Len(records[names[1]].nBlocks) + 8 * Len(records[names[1]].mBlocks)

\* C9: when the stream ends inside the header or the index NewReader returns
\* an error, and when it ends inside the fixed-size fields of the record a
\* call parses the call returns an error.  The code does not satisfy it: it
\* tests only the error of each Read, and a Read that fills part of the
\* buffer returns no error.
TruncationIsError ==
  /\ (rstate # "none" /\ src.kept < IndexEnd) => rstate = "failed"
  /\ (call.op # "none" /\ names # <<>> /\ call.name = names[1]
        /\ IndexEnd <= src.kept /\ src.kept < FieldsEnd)
       => ret.status = "error"

\* ------------------------------------------------------------------ C10

\* The other byte order.
Flip(bo) == IF bo = "LE" THEN "BE" ELSE "LE"

\* The Reader NewReader builds on the written file encoded in byte order bo.
ReaderOf(bo, o) ==
  [stream |-> Serialize(bo, records, names), pos |-> o.pos, hdr |-> o.hdr, index |-> o.index]

\* The Reader is rd on one encoding; o is what NewReader returns on the other.
OrdersAgree(o) ==
  /\ rstate = "open"
  /\ o.err = ""
  /\ rd.hdr.byteOrder = src.bo
  /\ o.hdr.byteOrder = Flip(src.bo)
  /\ rd.hdr.count = o.hdr.count
  /\ rd.hdr.version = o.hdr.version
  /\ rd.index = o.index
  /\ DOMAIN rd.index = DOMAIN records
  /\ call.op # "none" => Same(ret, Apply(call, ReaderOf(Flip(src.bo), o)))

\* C10: the big-endian and the little-endian encoding of a file are both
\* accepted by NewReader, each in the byte order its signature shows, and
\* the two Readers have the same count, version and names and return the
\* same result for every call.
ByteOrderIndependence ==
  rstate # "none" => OrdersAgree(NewReaderOn(Serialize(Flip(src.bo), records, names)))

\* A ReadRange on the big-endian encoding returned two or more bases of a
\* record that has an nBlock and an mBlock.
ByteOrderIndependenceSeen ==
  /\ call.op = "ReadRange"
  /\ src.bo = "BE"
  /\ rd.hdr.byteOrder = "BE"
  /\ ret.status = "ok"
  /\ Len(ret.val) >= 2
  /\ ret.rec.nBlocks # <<>>
  /\ ret.rec.mBlocks # <<>>

\* ------------------------------------------------ the Writer specification

\* A name of n bytes.
LongName(n) == [i \in 1..n |-> 120]

\* The names Add is given in the Writer specification: "a", a name of 255
\* bytes and one of 256.
WriterNames == {<<97>>, LongName(255), LongName(256)}

\* The characters of its sequences: a plain base, a masked unknown base and
\* 'X', which is no base.
WriterChars == {BASE_A, BASE_N + 32, 88}

\* The Writer specification: any sequence of Add calls, succeeding or
\* failing, then WriteTo.
NextWriter ==
  \/ \E name \in WriterNames : \E seq \in SeqsOver(WriterChars, MaxWriterDna) : Add(name, seq)
  \/ \E o \in Orders(DOMAIN records) : WriteTo(o)

SpecWriter == Init /\ [][NextWriter]_vars

\* ------------------------------------------------------------------ C11

RECURSIVE SumTo(_, _)
SumTo(f, k) == IF k = 0 THEN 0 ELSE f[k] + SumTo(f, k - 1)

\* The sizes of the index entries and of the records, in the written order.
EntrySizes == [k \in 1..Len(names) |-> 5 + Len(names[k])]

RecordSizes == [k \in 1..Len(names) |-> size(records[names[k]])]

\* Where index entry k and record k must begin.
EntryPos(k) == 16 + SumTo(EntrySizes, k - 1)

RecordPos(k) == 16 + SumTo(EntrySizes, Len(names)) + SumTo(RecordSizes, k - 1)

\* C11: WriteTo emits a header counting the stored names, one index entry per
\* stored name, and the records contiguously in the index's order; entry k
\* carries the position of record k's dnaSize field, 16 + the index size +
\* the sizes of the records before it; the output is 16 + index size + all
\* record sizes long.
SerializedLayout ==
  wstate = "written" =>
    /\ Uint32("LE", Slice(out, 0, 4)) = SIG
    /\ Uint32("LE", Slice(out, 4, 8)) = 0
    /\ Uint32("LE", Slice(out, 8, 12)) = Cardinality(DOMAIN records)
    /\ Uint32("LE", Slice(out, 12, 16)) = 0
    /\ Len(names) = Cardinality(DOMAIN records)
    /\ {names[k] : k \in 1..Len(names)} = DOMAIN records
    /\ Len(out) = RecordPos(Len(names) + 1)
    /\ \A k \in 1..Len(names) :
         /\ out[EntryPos(k) + 1] = Len(names[k])
         /\ Slice(out, EntryPos(k) + 1, EntryPos(k) + 1 + Len(names[k])) = names[k]
         /\ Uint32("LE", Slice(out, EntryPos(k) + 1 + Len(names[k]), EntryPos(k + 1)))
              = RecordPos(k)
         /\ Uint32("LE", Slice(out, RecordPos(k), RecordPos(k) + 4))
              = records[names[k]].dnaSize
         /\ Slice(out, RecordPos(k + 1) - Len(records[names[k]].sequence), RecordPos(k + 1))
              = records[names[k]].sequence

\* Two records of different sizes were written, the one of the 255-byte name
\* first, each with a payload and a block.
SerializedLayoutSeen ==
  /\ wstate = "written"
  /\ Len(names) = 2
  /\ names[1] = LongName(255)
  /\ size(records[names[1]]) # size(records[names[2]])
  /\ records[names[1]].nBlocks # <<>>
  /\ records[names[2]].sequence # <<>>

\* ------------------------------------------------------------------ C12

\* blocks are the maximal runs of the positions of seq whose character is in
\* check: each block non-empty and inside seq, the blocks ascending with at
\* least one position between them, and together exactly those positions.
IsRunsOf(blocks, seq, check) ==
  /\ \A k \in 1..Len(blocks) :
       /\ blocks[k].count >= 1
       /\ blocks[k].start >= 0
       /\ blocks[k].start + blocks[k].count <= Len(seq)
  /\ \A k \in 1..(Len(blocks) - 1) :
       blocks[k].start + blocks[k].count < blocks[k + 1].start
  /\ \A p \in 0..(Len(seq) - 1) : InBlock(blocks, p) <=> seq[p + 1] \in check

\* rec is the record of seq: its length, its runs of N/n, its runs of
\* lower-case letters, its bases packed four to a byte.
IsRecordOf(rec, seq) ==
  /\ rec.dnaSize = Len(seq)
  /\ IsRunsOf(rec.nBlocks, seq, {78, 110})
  /\ IsRunsOf(rec.mBlocks, seq, 97..122)
  /\ rec.sequence =
       [i \in 1..((Len(seq) + 3) \div 4) |->
          64 * CodeAt(seq, 4 * i - 3) + 16 * CodeAt(seq, 4 * i - 2)
            + 4 * CodeAt(seq, 4 * i - 1) + CodeAt(seq, 4 * i)]

\* Add must refuse name and seq.
Refused(name, seq) ==
  \/ Len(name) > 255
  \/ \E k \in 1..Len(seq) : Upper(seq[k]) \notin {65, 67, 71, 84, 78}

\* What one Add(name, seq) must do to the record map.
AddKeepsContract(name, seq) ==
  IF Refused(name, seq)
    THEN wret' # "" /\ records' = records
    ELSE /\ wret' = ""
         /\ DOMAIN records' = DOMAIN records \cup {name}
         /\ \A n \in DOMAIN records : n # name => records'[n] = records[n]
         /\ IsRecordOf(records'[name], seq)

\* C12: the record map holds one record per name some Add succeeded for, the
\* record of the last successful Add of that name; an Add of a name longer
\* than 255 bytes or of a sequence with a character that is no base returns
\* an error and leaves the record map as it was.
WriterState ==
  /\ [](/\ DOMAIN records = DOMAIN added
        /\ \A n \in DOMAIN records : IsRecordOf(records[n], added[n]))
  /\ [][\A name \in WriterNames : \A seq \in SeqsOver(WriterChars, MaxWriterDna) :
          Add(name, seq) => AddKeepsContract(name, seq)]_vars

\* An Add was refused for the length of its name while two names were
\* stored, one of them with a masked unknown base.
WriterStateSeen ==
  /\ wstate = "adding"
  /\ wret = "NameTooLong"
  /\ Cardinality(DOMAIN records) = 2
  /\ added[<<97>>] = <<BASE_A, BASE_N + 32>>

\* ------------------------------------------- the collaborator (service)

\* strings.HasPrefix
HasPrefix(s, prefix) == Len(s) >= Len(prefix) /\ SubSeq(s, 1, Len(prefix)) = prefix

\* "chr", "chrM" and "chrMT".
Chr == <<99, 104, 114>>

ChrM == <<99, 104, 114, 77>>

ChrMT == <<99, 104, 114, 77, 84>>

\* A normalization that keeps "chrMT": the variant the collaborator property
\* must tell apart.
KeepChrMT(chrName) == chrName

\* chrName once it carries the prefix: "chrMT" becomes "chrM".
Normalize(chrName) == IF chrName = ChrMT THEN ChrM ELSE chrName

\* The name GenomicInterval hands to ReadRange for chr.
ChrName(chr) == Normalize(IF HasPrefix(chr, Chr) THEN chr ELSE Chr \o chr)

\* twobitResults.GenomicInterval on the service's Reader tb.
GenomicInterval(tb, chr, start, end) ==
  IF chr = <<>>
    THEN Failure("GenomicInterval can't accept blank chromosome", 0, 0, tb.pos)
  ELSE IF start = end
    THEN Outcome("ok", <<>>, -1, <<>>, <<"", 0, 0>>, tb.pos)
    ELSE ReadRange(tb, ChrName(chr), start, end)

CallGenomicInterval(chr, start, end) ==
  Returns("GenomicInterval", chr, start, end, GenomicInterval(rd, chr, start, end))

\* The names stored in the collaborator specification: "chr1" and "chrM".
IntervalNames == {Chr \o <<49>>, ChrM}

\* The chromosomes GenomicInterval is asked for: "", "1", "chr1", "M",
\* "chrM", "MT", "chrMT" and "2", which is not stored.
IntervalChrs ==
  {<<>>, <<49>>, Chr \o <<49>>, <<77>>, ChrM, <<77, 84>>, ChrMT, <<50>>}

\* The collaborator specification: a file with "chr1" and "chrM" is written,
\* the service's Reader opened on it, and GenomicInterval called.
NextInterval ==
  \/ \E name \in IntervalNames :
       \E seq \in SeqsOver({BASE_A, BASE_N + 32}, MaxIntervalDna) : Add(name, seq)
  \/ \E o \in Orders(DOMAIN records) : WriteTo(o)
  \/ NewReader("LE", Len(out))
  \/ \E chr \in IntervalChrs, start \in -1..MaxIntervalDna, end \in -1..(MaxIntervalDna + 1) :
       CallGenomicInterval(chr, start, end)
  \/ Done

SpecInterval == Init /\ [][NextInterval]_vars

\* ------------------------------------------------------------------ C13

\* The stored name each chromosome stands for.
StoredNameOf(chr) ==
  CASE chr \in {<<49>>, <<99, 104, 114, 49>>} -> <<99, 104, 114, 49>>
    [] chr \in {<<77>>, <<99, 104, 114, 77>>, <<77, 84>>, <<99, 104, 114, 77, 84>>}
         -> <<99, 104, 114, 77>>
    [] chr = <<50>> -> <<99, 104, 114, 50>>

\* C13: GenomicInterval of a blank chr is an error; of a non-blank chr with
\* start = end it is the empty string and no error, no record being parsed
\* and the cursor staying where it was, whether the name is stored or not;
\* with start # end it is the outcome of ReadRange on the normalized name.
CollaboratorInterval ==
  call.op = "GenomicInterval" =>
    IF call.name = <<>>
      THEN ret.status = "error" /\ ret.val = <<>>
    ELSE IF call.start = call.end
      THEN /\ ret.status = "ok"
           /\ ret.val = <<>>
           /\ ret.rec = NoRecord
           /\ ret.payload = <<0, 0>>
           /\ call.moved <=> (rd.pos # src.home)
      ELSE Same(ret, ReadRange(rd, StoredNameOf(call.name), call.start, call.end))

\* GenomicInterval("MT", 0, 2) returned the two bases stored under "chrM".
CollaboratorIntervalSeen ==
  /\ call.op = "GenomicInterval"
  /\ call.name = <<77, 84>>
  /\ call.start = 0
  /\ call.end = 2
  /\ ret.status = "ok"
  /\ Len(ret.val) = 2
  /\ ret.val = added[<<99, 104, 114, 77>>]

\* ---------------------------------------- the run-detection specification

\* Add called with every sequence up to MaxBlocksDna, each call running
\* mapBlocks with the is-unknown and the is-lower-case predicate.
NextBlocks == \E seq \in SeqsOver(MainChars, MaxBlocksDna) : Add(<<97>>, seq)

SpecBlocks == Init /\ [][NextBlocks]_vars

\* ------------------------------------------------------------------ C14

\* C14: the blocks mapBlocks returns for seq and a predicate each have
\* count >= 1 and lie inside seq, are ascending with at least one
\* non-matching position between them, and cover exactly the matching
\* positions, a run reaching the last character included; checked for the
\* two predicates of Add and for the predicate "is a plain A".
RunDetection ==
  \A n \in DOMAIN added :
    /\ IsRunsOf(records[n].nBlocks, added[n], {BASE_N, BASE_N + 32})
    /\ IsRunsOf(records[n].mBlocks, added[n], 97..122)
    /\ IsRunsOf(mapBlocks(added[n], {BASE_A}), added[n], {BASE_A})

\* "nANn" was added: two runs of unknown bases, the second reaching the last
\* character, and two masked runs.
RunDetectionSeen ==
  /\ <<97>> \in DOMAIN added
  /\ added[<<97>>] = <<BASE_N + 32, BASE_A, BASE_N, BASE_N + 32>>
  /\ records[<<97>>].nBlocks = <<[start |-> 0, count |-> 1], [start |-> 2, count |-> 2]>>
  /\ records[<<97>>].mBlocks = <<[start |-> 0, count |-> 1], [start |-> 3, count |-> 1]>>

\* ------------------------------------------------------------------ C16

\* C16: on a valid window ReadRange asks the stream for exactly the payload
\* bytes floor(start/4) .. ceil(end/4)-1, and for no byte at or past payload
\* index ceil(dnaSize/4).  The code does not satisfy it: with start not a
\* multiple of 4 it asks for packedSize(end-start)+1 bytes from byte
\* floor(start/4), one more than the window holds whenever the window does
\* not reach into that byte.
ReadSpanInsidePayload ==
  ValidWindow =>
    /\ ret.payload[1] = PayloadStart + (call.start \div 4)
    /\ ret.payload[2] = ((call.end + 3) \div 4) - (call.start \div 4)
    /\ ret.payload[1] + ret.payload[2] <= PayloadStart + ((Dna + 3) \div 4)

\* ------------------------------------------ the concurrency specification

\* Goroutines call one Reader with no lock.  A call is three steps on the
\* shared cursor rd.pos, other goroutines running between them: the absolute
\* seek of parseRecord; the reads of parseRecord; and, for ReadRange, the
\* relative seek and the payload read.  (Every schedule of these steps is a
\* schedule of the program; the program has finer ones as well.)

\* thr after goroutine t has moved the cursor and become new: every other
\* goroutine that has sought and not yet finished reading is overtaken.
Overtakes(t, new) ==
  [u \in Threads |->
     IF u = t THEN new
     ELSE IF thr[u].pc \in {"parse", "payload"} THEN [thr[u] EXCEPT !.mixed = TRUE]
     ELSE thr[u]]

\* Goroutine t enters a call.
Begin(t, op, name, start, end) ==
  /\ rstate = "open"
  /\ thr[t].pc = "idle"
  /\ thr' = [thr EXCEPT ![t] = [Idle EXCEPT !.pc = "seek", !.op = op, !.name = name,
                                           !.start = start, !.end = end]]
  /\ UNCHANGED <<rd, rstate, src, call, ret>>
  /\ UNCHANGED writerVars
  /\ UNCHANGED packVars

\* parseRecord's index lookup and r.reader.Seek(offset, 0).
Seek(t) ==
  /\ thr[t].pc = "seek"
  /\ IF thr[t].name \notin DOMAIN rd.index
       THEN /\ thr' = [thr EXCEPT ![t].pc = "done",
                                  ![t].ret = Failure("Invalid sequence name", 0, 0, rd.pos)]
            /\ rd' = rd
       ELSE /\ thr' = Overtakes(t, [thr[t] EXCEPT !.pc = "parse"])
            /\ rd' = [rd EXCEPT !.pos = SeekStart(rd.pos, rd.index[thr[t].name])]
  /\ UNCHANGED <<rstate, src, call, ret>>
  /\ UNCHANGED writerVars
  /\ UNCHANGED packVars

\* What the call of goroutine c returns once its record is parsed (pr), when
\* it does not go on to read the payload.
ParsedOutcome(c, pr) ==
  CASE c.op = "Length"    -> LengthFrom(pr)
    [] c.op = "NBlocks"   -> NBlocksFrom(pr)
    [] c.op = "ReadRange" -> RangeOf(rd.stream, pr, c.start, c.end)

\* The reads of parseRecord are made from the cursor as it is now (pr).
Parsed(t, pr) ==
  /\ thr' = Overtakes(t,
              IF thr[t].op = "ReadRange" /\ pr.err = ""
                THEN [thr[t] EXCEPT !.pc = "payload", !.pr = pr]
                ELSE [thr[t] EXCEPT !.pc = "done", !.pr = pr,
                                    !.ret = ParsedOutcome(thr[t], pr)])
  /\ rd' = [rd EXCEPT !.pos = pr.pos]

\* parseRecord after its seek: dnaSize, block tables, reserved.
Parse(t) ==
  /\ thr[t].pc = "parse"
  /\ Parsed(t, RecordSize(rd.stream, rd.hdr.byteOrder, thr[t].op # "Length",
                          ReadField(rd.stream, rd.pos, Zeros(4))))
  /\ UNCHANGED <<rstate, src, call, ret>>
  /\ UNCHANGED writerVars
  /\ UNCHANGED packVars

PayloadRead(t, r) ==
  /\ thr' = Overtakes(t, [thr[t] EXCEPT !.pc = "done", !.ret = r])
  /\ rd' = [rd EXCEPT !.pos = r.pos]

\* ReadRange after parseRecord: clamp, Seek(shift, 1) and the payload read,
\* from the cursor as it is now.
Payload(t) ==
  /\ thr[t].pc = "payload"
  /\ PayloadRead(t, RangeOf(rd.stream, [thr[t].pr EXCEPT !.pos = rd.pos],
                            thr[t].start, thr[t].end))
  /\ UNCHANGED <<rstate, src, call, ret>>
  /\ UNCHANGED writerVars
  /\ UNCHANGED packVars

\* The caller of goroutine t takes the result.
Return(t) ==
  /\ thr[t].pc = "done"
  /\ thr' = [thr EXCEPT ![t] = Idle]
  /\ UNCHANGED <<rd, rstate, src, call, ret>>
  /\ UNCHANGED writerVars
  /\ UNCHANGED packVars

\* The bases of the concurrency specification: a plain C and a masked
\* unknown base.  Their payload bytes stay below 128, so a word read at a
\* cursor another call has displaced is below 2^31.
RaceChars == {BASE_C, BASE_N + 32}

\* What Add is given for name in the concurrency specification.
RaceSeqs(name) ==
  IF name = <<97>> THEN SeqsOver(RaceChars, MaxRaceDna) ELSE OtherSeqs

NextRace ==
  \/ \E name \in Names : \E seq \in RaceSeqs(name) : Add(name, seq)
  \/ \E o \in Orders(DOMAIN records) : WriteTo(o)
  \/ NewReader("LE", Len(out))
  \/ \E t \in Threads, name \in Names, start \in 0..1 :
       Begin(t, "ReadRange", name, start, 0)
  \/ \E t \in Threads, name \in Names : Begin(t, "Length", name, 0, 0)
  \/ \E t \in Threads, name \in Names : Begin(t, "NBlocks", name, 0, 0)
  \/ \E t \in Threads : Seek(t)
  \/ \E t \in Threads : Parse(t)
  \/ \E t \in Threads : Payload(t)
  \/ \E t \in Threads : Return(t)

SpecRace == Init /\ [][NextRace]_vars

\* ------------------------------------------------------------------ C15

\* What the call goroutine t is in returns when it runs alone.
Alone(t) == Apply(thr[t], [rd EXCEPT !.pos = src.home])

\* C15: a call that no other call overtook between its seek and its last
\* read returns what it returns when run alone; so calls the caller
\* serializes all do, and a call that returns something else was overtaken.
SerializedCalls ==
  \A t \in Threads :
    (thr[t].pc = "done" /\ ~thr[t].mixed) => Same(thr[t].ret, Alone(t))

\* A call overtaken by another goroutine returned, without an error, bytes,
\* a dnaSize or blocks that it does not return when run alone.
SerializedCallsSeen ==
  \E t \in Threads :
    /\ thr[t].pc = "done"
    /\ thr[t].mixed
    /\ thr[t].ret.status = "ok"
    /\ Alone(t).status = "ok"
    /\ ~Same(thr[t].ret, Alone(t))

====
